---- MODULE Spec2Model ----
(***************************************************************************)
(* BeLLa: a file-upload utility.  src/app/database.py keeps the `files`    *)
(* table (add_file, get_all_files, get_file_info, sync_files) and          *)
(* src/app.py is the /upload route (upload_file) that validates a request, *)
(* writes the primary file and its readme to the upload directory and      *)
(* inserts one row.                                                        *)
(*                                                                         *)
(* Spec     : every handler runs to completion before the next one starts. *)
(* SpecRace : one upload request and one sync_files pass run as two        *)
(*            threads, interleaved at their file-system and database       *)
(*            operations.                                                  *)
(***************************************************************************)
EXTENDS Integers, Sequences, FiniteSets, TLC

VARIABLES
    files,        \* the rows of table `files`, in rowid order
    nextId,       \* the next AUTOINCREMENT id (ids are never reused)
    clock,        \* datetime.now(), as a counter
    uploads,      \* the names of the files in the upload directory
    dirState,     \* "ok" | "missing" | "unlistable" : the upload directory itself
    actual_files, \* SpecRace: sync_files's local `actual_files`
    last,         \* the last operation and its outcome
    upc,          \* SpecRace: where the upload thread stands
    ufile,        \* SpecRace: upload_file's local `filename`
    ureadme,      \* SpecRace: upload_file's local `readme_name`
    spc,          \* SpecRace: where the sync thread stands
    db_files,     \* SpecRace: sync_files's local `db_files` (the SELECT's rows)
    uid,          \* SpecRace: the id of the row the last finished upload inserted
    snapNext,     \* SpecRace: nextId when db_files was read
    raced         \* SpecRace: the ids of the rows a pass deleted though they
                  \*           were inserted after the pass's SELECT

vars == <<files, nextId, clock, uploads, dirState, actual_files, last,
          upc, ufile, ureadme, uid, spc, db_files, snapNext, raced>>

raceVars ==
    <<actual_files, upc, ufile, ureadme, uid, spc, db_files, snapNext, raced>>

-----------------------------------------------------------------------------
(* Bounds *)

\* add_file is called at most MaxRecords times in a behaviour.
MaxRecords == 2

-----------------------------------------------------------------------------
(* Names.  A name is a sequence of tokens; "." is the only token holding a  *)
(* dot, every other token is a non-empty run of other characters.           *)

\* Python None / SQL NULL: differs from every name, the empty one included.
None == <<"<None>">>

EmptyName == <<>>

A_PNG == <<"a", ".", "png">>
B_DOC == <<"b">>
D_MD == <<"d", ".", "md">>

\* bool(x) of a str-or-None value
Bool(x) == x # None /\ x # EmptyName

\* The index of the last "." of name, 0 when there is none (str.rfind).
RECURSIVE RFindDot(_, _)
RFindDot(name, i) ==
    IF i = 0 THEN 0
    ELSE IF name[i] = "." THEN i
    ELSE RFindDot(name, i - 1)

\* os.path.splitext: split at the last dot unless only dots precede it.
splitext(name) ==
    LET dotIndex == RFindDot(name, Len(name))
    IN  IF dotIndex > 0 /\ \E k \in 1..(dotIndex - 1) : name[k] # "."
        THEN <<SubSeq(name, 1, dotIndex - 1), SubSeq(name, dotIndex, Len(name))>>
        ELSE <<name, EmptyName>>

\* f"{os.path.splitext(filename)[0]}_readme{os.path.splitext(readme_file.filename)[1]}"
UploadedReadmeName(filename, readme_filename) ==
    splitext(filename)[1] \o <<"_readme">> \o splitext(readme_filename)[2]

\* f"{os.path.splitext(filename)[0]}_readme.txt"
WrittenReadmeName(filename) ==
    splitext(filename)[1] \o <<"_readme", ".", "txt">>

\* The file_name arguments of the direct add_file calls enumerated.
FileNames == {A_PNG, B_DOC}

\* The names of the primary files the enumerated requests post.
PostedNames == {A_PNG}


-----------------------------------------------------------------------------
(* The files table: src/app/database.py *)

Row(id, file_name, upload_date, readme_name, has_readme) ==
    [id |-> id, file_name |-> file_name, upload_date |-> upload_date,
     readme_name |-> readme_name, has_readme |-> has_readme]

\* Mutant of Insert: has_readme is left at the column's DEFAULT FALSE.
InsertDefaultFlag(db, id, file_name, readme_name, now) ==
    Append(db, Row(id, file_name, now, readme_name, FALSE))

\* INSERT INTO files (file_name, readme_name, upload_date, has_readme)
Insert(db, id, file_name, readme_name, now) ==
    Append(db, Row(id, file_name, now, readme_name, Bool(readme_name)))

\* DELETE FROM files WHERE file_name = ?
DeleteWhereFileName(db, file_name) ==
    SelectSeq(db, LAMBDA r : r.file_name # file_name)

\* Mutant of ClearReadmeWhereFileName: the UPDATE sets readme_name alone.
ClearReadmeNameOnly(db, file_name) ==
    [i \in 1..Len(db) |->
        IF db[i].file_name = file_name
        THEN [db[i] EXCEPT !.readme_name = None]
        ELSE db[i]]

\* UPDATE files SET readme_name = NULL, has_readme = FALSE WHERE file_name = ?
ClearReadmeWhereFileName(db, file_name) ==
    [i \in 1..Len(db) |->
        IF db[i].file_name = file_name
        THEN [db[i] EXCEPT !.readme_name = None, !.has_readme = FALSE]
        ELSE db[i]]

\* SELECT file_name, readme_name FROM files
SelectNames(db) ==
    [i \in 1..Len(db) |->
        [file_name |-> db[i].file_name, readme_name |-> db[i].readme_name]]

\* fetchone() on an empty result: Python None (no row has id 0).
NoRow == [id |-> 0]

\* SELECT * FROM files WHERE file_name = ? ; fetchone(): the first row in
\* rowid order, NoRow when there is none.
get_file_info(db, file_name) ==
    LET hits == SelectSeq(db, LAMBDA r : r.file_name = file_name)
    IN  IF hits = <<>> THEN NoRow ELSE Head(hits)

\* Insert row r into rows, which is sorted by upload_date descending.
RECURSIVE InsertByDateDesc(_, _)
InsertByDateDesc(rows, r) ==
    IF rows = <<>> THEN <<r>>
    ELSE IF Head(rows).upload_date >= r.upload_date
    THEN <<Head(rows)>> \o InsertByDateDesc(Tail(rows), r)
    ELSE <<r>> \o rows

RECURSIVE OrderByDateDesc(_)
OrderByDateDesc(db) ==
    IF db = <<>> THEN <<>>
    ELSE InsertByDateDesc(OrderByDateDesc(SubSeq(db, 1, Len(db) - 1)), db[Len(db)])

\* SELECT * FROM files ORDER BY upload_date DESC
get_all_files(db) == OrderByDateDesc(db)

\* set(os.listdir(upload_dir)) if os.path.exists(upload_dir) else set()
\* (evaluated only when the directory can be listed)
ListingRead == IF dirState = "ok" THEN uploads ELSE {}

\* Mutant of SyncRow: the readme test comes first, so a row whose file and
\* readme are both gone is cleared, not deleted.
SyncRowReadmeFirst(db, row, actual) ==
    IF Bool(row.readme_name) /\ row.readme_name \notin actual
    THEN ClearReadmeWhereFileName(db, row.file_name)
    ELSE IF row.file_name \notin actual
    THEN DeleteWhereFileName(db, row.file_name)
    ELSE db

\* Mutant of SyncRow: the elif branch that clears a missing readme is absent.
SyncRowDeleteOnly(db, row, actual) ==
    IF row.file_name \notin actual
    THEN DeleteWhereFileName(db, row.file_name)
    ELSE db

\* Mutant of SyncRow: the readme is cleared whether or not its file is there.
SyncRowClearsAlways(db, row, actual) ==
    IF row.file_name \notin actual
    THEN DeleteWhereFileName(db, row.file_name)
    ELSE IF Bool(row.readme_name)
    THEN ClearReadmeWhereFileName(db, row.file_name)
    ELSE db

\* Mutant of SyncRow: `in` for `not in` in the test of the file name.
SyncRowInverted(db, row, actual) ==
    IF row.file_name \in actual
    THEN DeleteWhereFileName(db, row.file_name)
    ELSE IF Bool(row.readme_name) /\ row.readme_name \notin actual
    THEN ClearReadmeWhereFileName(db, row.file_name)
    ELSE db

\* One iteration of sync_files's loop, on row `row` of the SELECT.
SyncRow(db, row, actual) ==
    IF row.file_name \notin actual
    THEN DeleteWhereFileName(db, row.file_name)
    ELSE IF Bool(row.readme_name) /\ row.readme_name \notin actual
    THEN ClearReadmeWhereFileName(db, row.file_name)
    ELSE db

\* Mutant of SyncLoop: the loop ends after its first row.
SyncLoopFirstRow(db, rows, actual) ==
    IF rows = <<>> THEN db ELSE SyncRow(db, Head(rows), actual)

\* sync_files's loop over db_files.
RECURSIVE SyncLoop(_, _, _)
SyncLoop(db, rows, actual) ==
    IF rows = <<>> THEN db
    ELSE SyncLoop(SyncRow(db, Head(rows), actual), Tail(rows), actual)

\* sync_files() run on table db: whether os.listdir raised, the table it
\* leaves committed, and the listing it read.
SyncFilesRun(db) ==
    IF dirState = "unlistable"
    THEN [raised |-> TRUE, db |-> db, actual |-> {}]
    ELSE [raised |-> FALSE,
          db |-> SyncLoop(db, SelectNames(db), ListingRead),
          actual |-> ListingRead]

-----------------------------------------------------------------------------
(* Spec: the operations, each run to completion *)

Init ==
    /\ files = <<>>
    /\ nextId = 1
    /\ clock = 1
    /\ uploads = {}
    /\ dirState = "ok"
    /\ actual_files = {}
    /\ last = [op |-> "init"]
    /\ upc = "idle"
    /\ ufile = None
    /\ ureadme = None
    /\ uid = 0
    /\ spc = "idle"
    /\ db_files = <<>>
    /\ snapNext = 1
    /\ raced = {}

\* The readme_name arguments of the direct add_file(file_name, ...) calls
\* enumerated.
ReadmeArgs(file_name) == {None, EmptyName, WrittenReadmeName(file_name)}

\* add_file(file_name, readme_name)
add_file(file_name, readme_name) ==
    /\ nextId <= MaxRecords
    /\ files' = Insert(files, nextId, file_name, readme_name, clock)
    /\ nextId' = nextId + 1
    /\ clock' = clock + 1
    /\ last' = [op |-> "add_file", file_name |-> file_name,
                readme_name |-> readme_name]
    /\ UNCHANGED <<uploads, dirState>>
    /\ UNCHANGED raceVars

AddFile == \E f \in FileNames : \E r \in ReadmeArgs(f) : add_file(f, r)

\* sync_files()
sync_files ==
    LET run == SyncFilesRun(files)
    IN  /\ files' = run.db
        /\ last' = [op |-> "sync_files",
                    outcome |-> IF run.raised THEN "error" ELSE "returned",
                    actual_files |-> run.actual]
        /\ UNCHANGED <<nextId, clock, uploads, dirState>>
        /\ UNCHANGED raceVars

-----------------------------------------------------------------------------
(* The /upload route: src/app.py *)

\* Texts of the readmeText form field: sequences of characters.
EmptyText == <<>>
BlankText == <<" ">>
SomeText == <<"h", " ">>

\* str.strip(): drop the leading and the trailing whitespace.
RECURSIVE lstrip(_)
lstrip(t) == IF t # <<>> /\ Head(t) = " " THEN lstrip(Tail(t)) ELSE t

RECURSIVE rstrip(_)
rstrip(t) ==
    IF t # <<>> /\ t[Len(t)] = " " THEN rstrip(SubSeq(t, 1, Len(t) - 1)) ELSE t

strip(t) == rstrip(lstrip(t))

\* request.files with the parts `keys`.
FilesDict(keys, file, readmeFile) ==
    [k \in keys |-> IF k = "file" THEN file ELSE readmeFile]

\* request.form with the fields `keys`.
FormDict(keys, readmeChoice, readmeText) ==
    [k \in keys |-> IF k = "readmeChoice" THEN readmeChoice ELSE readmeText]

\* request.files of the requests enumerated: the parts "file" and "readmeFile".
FilesDicts ==
    { FilesDict(keys, f, rf) :
        keys \in SUBSET {"file", "readmeFile"},
        f \in {EmptyName} \cup PostedNames,
        rf \in {EmptyName, D_MD} }

\* request.form of the requests enumerated: "readmeChoice" and "readmeText".
FormDicts ==
    { FormDict(keys, c, t) :
        keys \in SUBSET {"readmeChoice", "readmeText"},
        c \in {"upload", "write", "none"},
        t \in {EmptyText, BlankText, SomeText} }

Requests ==
    { [method |-> "GET", files |-> FilesDict({}, EmptyName, EmptyName),
       form |-> FormDict({}, "none", EmptyText)] }
    \cup { [method |-> "POST", files |-> fs, form |-> fm] :
              fs \in FilesDicts, fm \in FormDicts }

\* request.form.get(key)
FormGet(req, key) == IF key \in DOMAIN req.form THEN req.form[key] ELSE None

\* Mutant of ValidationError: the written text is not stripped before it is
\* compared with ''.
ValidationErrorNoStrip(req) ==
    IF "file" \notin DOMAIN req.files THEN "No file part"
    ELSE IF req.files["file"] = EmptyName THEN "No selected file"
    ELSE IF "readmeChoice" \notin DOMAIN req.form
    THEN "Please select a documentation option"
    ELSE IF /\ req.form["readmeChoice"] = "upload"
            /\ ("readmeFile" \notin DOMAIN req.files
                \/ req.files["readmeFile"] = EmptyName)
    THEN "Please select a README file to upload"
    ELSE IF /\ req.form["readmeChoice"] = "write"
            /\ ~Bool(FormGet(req, "readmeText"))
    THEN "Please write some documentation or choose a different option"
    ELSE "ok"

\* upload_file, lines 34-58: the message flashed by the check that rejects
\* the POST request, "ok" when every check passes.
ValidationError(req) ==
    IF "file" \notin DOMAIN req.files THEN "No file part"
    ELSE IF req.files["file"] = EmptyName THEN "No selected file"
    ELSE IF "readmeChoice" \notin DOMAIN req.form
    THEN "Please select a documentation option"
    ELSE IF /\ req.form["readmeChoice"] = "upload"
            /\ ("readmeFile" \notin DOMAIN req.files
                \/ req.files["readmeFile"] = EmptyName)
    THEN "Please select a README file to upload"
    ELSE IF /\ req.form["readmeChoice"] = "write"
            /\ (~Bool(FormGet(req, "readmeText"))
                \/ strip(FormGet(req, "readmeText")) = EmptyText)
    THEN "Please write some documentation or choose a different option"
    ELSE "ok"

\* upload_file, lines 65-83: readme_name of a request that passed the checks.
ReadmeNameOf(req) ==
    LET filename == req.files["file"]
        readme_choice == req.form["readmeChoice"]
    IN  IF readme_choice = "upload"
        THEN IF "readmeFile" \in DOMAIN req.files
                /\ req.files["readmeFile"] # EmptyName
             THEN UploadedReadmeName(filename, req.files["readmeFile"])
             ELSE None
        ELSE IF readme_choice = "write"
        THEN IF Bool(FormGet(req, "readmeText"))
             THEN WrittenReadmeName(filename)
             ELSE None
        ELSE None

\* Mutant of SyncsFirst: the handler never runs sync_files.
SyncsNever(method) == FALSE

\* upload_file, line 29: the methods on which the handler runs sync_files.
SyncsFirst(method) == method = "GET"

\* upload_file, lines 91-99: the list handed to the template.
Listing(db) ==
    LET rows == get_all_files(db)
    IN  [i \in 1..Len(rows) |->
            [name |-> rows[i].file_name, has_readme |-> rows[i].has_readme,
             upload_date |-> rows[i].upload_date]]

\* upload_file(): the handler of one request, run to completion.
UploadFileRun(req) ==
    LET sync == SyncsFirst(req.method)
        run == SyncFilesRun(files)
        db1 == IF sync THEN run.db ELSE files
        same == [files |-> db1, uploads |-> uploads, inserted |-> FALSE]
        err == ValidationError(req)
        filename == req.files["file"]
        readme_name == ReadmeNameOf(req)
        written == {filename} \cup (IF readme_name = None THEN {} ELSE {readme_name})
        render == same @@ [last |-> [op |-> "upload_file", method |-> req.method,
                                    outcome |-> "render", synced |-> sync,
                                    actual_files |-> run.actual,
                                    listing |-> Listing(db1)]]
    IN  IF sync /\ run.raised
        THEN \* os.listdir raised inside sync_files: the request fails
             [files |-> files, uploads |-> uploads, inserted |-> FALSE,
              last |-> [op |-> "upload_file", method |-> req.method,
                        outcome |-> "error", synced |-> FALSE]]
        ELSE IF req.method = "POST"
        THEN IF err # "ok"
             THEN same @@ [last |-> [op |-> "upload_file", method |-> req.method,
                                     outcome |-> "redirect", synced |-> sync,
                                     stored |-> FALSE]]
             ELSE IF Bool(filename)
             THEN IF dirState = "missing"
                  THEN \* file.save raised: no such directory
                       same @@ [last |-> [op |-> "upload_file",
                                          method |-> req.method,
                                          outcome |-> "error", synced |-> sync]]
                  ELSE [files |-> Insert(db1, nextId, filename, readme_name, clock),
                        uploads |-> uploads \cup written,
                        inserted |-> TRUE,
                        last |-> [op |-> "upload_file", method |-> req.method,
                                  outcome |-> "redirect", synced |-> sync,
                                  stored |-> TRUE]]
             ELSE render
        ELSE render

upload_file(req) ==
    LET out == UploadFileRun(req)
    IN  /\ out.inserted => nextId <= MaxRecords
        /\ files' = out.files
        /\ uploads' = out.uploads
        /\ nextId' = IF out.inserted THEN nextId + 1 ELSE nextId
        /\ clock' = IF out.inserted THEN clock + 1 ELSE clock
        /\ last' = out.last
        /\ UNCHANGED dirState
        /\ UNCHANGED raceVars

UploadFile == \E req \in Requests : upload_file(req)

-----------------------------------------------------------------------------
(* The upload directory changes behind the program's back *)

EnvRemoveFile ==
    /\ \E n \in uploads : uploads' = uploads \ {n}
    /\ last' = [op |-> "env"]
    /\ UNCHANGED <<files, nextId, clock, dirState>>
    /\ UNCHANGED raceVars

\* The directory is removed with its files, made again, or loses or regains
\* its read permission: while it is "unlistable" os.path.exists is true,
\* os.listdir raises PermissionError and files can still be written; while
\* it is "missing" os.path.exists is false and file.save raises.
EnvDirectory ==
    /\ \E s \in {"ok", "missing", "unlistable"} :
          /\ s # dirState
          /\ dirState = "missing" => s = "ok"
          /\ dirState' = s
          /\ uploads' = IF s = "missing" THEN {} ELSE uploads
    /\ last' = [op |-> "env"]
    /\ UNCHANGED <<files, nextId, clock>>
    /\ UNCHANGED raceVars

Next ==
    \/ AddFile
    \/ sync_files
    \/ UploadFile
    \/ EnvRemoveFile
    \/ EnvDirectory

Spec == Init /\ [][Next]_vars

-----------------------------------------------------------------------------
(* SpecRace: a POST /upload request and a sync_files pass in two threads.  *)
(* The steps are the threads' file-system and database operations; the     *)
(* loop of sync_files and its commit are one step, because its first       *)
(* DELETE or UPDATE takes the database's write lock, which add_file's      *)
(* INSERT waits for.                                                       *)

\* upload_file, lines 33-63: a request passes the checks; file.save
UploadSaveFile ==
    /\ upc \in {"idle", "done"}
    /\ nextId <= MaxRecords
    /\ \E req \in Requests :
          /\ req.method = "POST"
          /\ ValidationError(req) = "ok"
          /\ Bool(req.files["file"])
          /\ ufile' = req.files["file"]
          /\ ureadme' = ReadmeNameOf(req)
          /\ uploads' = uploads \cup {req.files["file"]}
          /\ upc' = IF ReadmeNameOf(req) = None THEN "add_file" ELSE "save_readme"
    /\ UNCHANGED <<files, nextId, clock, dirState, last>>
    /\ UNCHANGED <<actual_files, uid, spc, db_files, snapNext, raced>>

\* upload_file, lines 67-83: readme_file.save, or open(readme_path, 'w')
UploadSaveReadme ==
    /\ upc = "save_readme"
    /\ uploads' = uploads \cup {ureadme}
    /\ upc' = "add_file"
    /\ UNCHANGED <<files, nextId, clock, dirState, last>>
    /\ UNCHANGED <<actual_files, ufile, ureadme, uid, spc, db_files, snapNext, raced>>

\* upload_file, lines 86-88: add_file(filename, readme_name); the request ends
UploadAddFile ==
    /\ upc = "add_file"
    /\ files' = Insert(files, nextId, ufile, ureadme, clock)
    /\ uid' = nextId
    /\ nextId' = nextId + 1
    /\ clock' = clock + 1
    /\ upc' = "done"
    /\ UNCHANGED <<uploads, dirState, last>>
    /\ UNCHANGED <<actual_files, ufile, ureadme, spc, db_files, snapNext, raced>>

\* sync_files, lines 67-68: db_files = c.fetchall()
SyncSelect ==
    /\ spc = "idle"
    /\ db_files' = SelectNames(files)
    /\ snapNext' = nextId
    /\ spc' = "listdir"
    /\ UNCHANGED <<files, nextId, clock, uploads, dirState, last>>
    /\ UNCHANGED <<actual_files, upc, ufile, ureadme, uid, raced>>

\* sync_files, lines 71-72: actual_files = set(os.listdir(upload_dir))
SyncListdir ==
    /\ spc = "listdir"
    /\ actual_files' = ListingRead
    /\ spc' = "loop"
    /\ UNCHANGED <<files, nextId, clock, uploads, dirState, last>>
    /\ UNCHANGED <<upc, ufile, ureadme, uid, db_files, snapNext, raced>>

\* The ids of the rows of db.
Ids(db) == {db[i].id : i \in 1..Len(db)}

\* sync_files, lines 75-90: the loop over db_files, commit and close
SyncLoopCommit ==
    /\ spc = "loop"
    /\ files' = SyncLoop(files, db_files, actual_files)
    /\ raced' = raced \cup {i \in Ids(files) \ Ids(files') : i >= snapNext}
    /\ spc' = "idle"
    /\ db_files' = <<>>
    /\ actual_files' = {}
    /\ UNCHANGED <<nextId, clock, uploads, dirState, last>>
    /\ UNCHANGED <<upc, ufile, ureadme, uid, snapNext>>

NextRace ==
    \/ UploadSaveFile
    \/ UploadSaveReadme
    \/ UploadAddFile
    \/ SyncSelect
    \/ SyncListdir
    \/ SyncLoopCommit
    \/ EnvRemoveFile

SpecRace == Init /\ [][NextRace]_vars

-----------------------------------------------------------------------------
(* The claims *)

\* A synchronization pass has just returned: sync_files() called directly,
\* or by the GET handler, which then rendered the list.
PassDone ==
    \/ last.op = "sync_files" /\ last.outcome = "returned"
    \/ last.op = "upload_file" /\ last.outcome = "render" /\ last.synced

\* A pass has deleted a row and kept another.
SomeDeletedSomeKept == Len(files) >= 1 /\ nextId - 1 > Len(files)

\* C1: after sync_files returns against listing L, every row left in the
\* table has its file_name in L.
C1_NoOrphanSurvives ==
    PassDone => \A i \in 1..Len(files) : files[i].file_name \in last.actual_files

C1_Witness == PassDone /\ dirState = "ok" /\ SomeDeletedSomeKept

\* C2: after sync_files returns against listing L, every row left with
\* has_readme true has its readme_name in L.
C2_NoDanglingReadme ==
    PassDone =>
        \A i \in 1..Len(files) :
            files[i].has_readme => files[i].readme_name \in last.actual_files

C2_Witness ==
    /\ PassDone
    /\ \E i, j \in 1..Len(files) :
          /\ files[i].has_readme
          /\ ~files[j].has_readme
          /\ WrittenReadmeName(files[j].file_name) \notin last.actual_files

\* C3: a second pass against the same listing leaves the table as the first
\* pass left it.
C3_Idempotent ==
    PassDone => SyncLoop(files, SelectNames(files), last.actual_files) = files

C3_Witness ==
    /\ PassDone
    /\ SomeDeletedSomeKept
    /\ \E i \in 1..Len(files) : ~files[i].has_readme

\* C4: when the upload directory cannot be listed (it is missing, or cannot
\* be read), a pass leaves the rows of the table exactly as they were.
C4_UnlistableLeavesStore ==
    [][(last'.op = "sync_files" /\ dirState # "ok") => files' = files]_vars

\* The requests the claim C5 calls invalid.
AllWhitespace(t) == \A i \in 1..Len(t) : t[i] = " "

FailsValidation(req) ==
    \/ "file" \notin DOMAIN req.files
    \/ req.files["file"] = EmptyName
    \/ "readmeChoice" \notin DOMAIN req.form
    \/ /\ req.form["readmeChoice"] = "upload"
       /\ ("readmeFile" \notin DOMAIN req.files \/ req.files["readmeFile"] = EmptyName)
    \/ /\ req.form["readmeChoice"] = "write"
       /\ ("readmeText" \notin DOMAIN req.form \/ AllWhitespace(req.form["readmeText"]))

\* C5: a POST request that fails validation changes neither the upload
\* directory nor the table: no step that changes either is the handling of
\* such a request.
C5_RejectedBeforeAnyWrite ==
    [][\/ UNCHANGED <<files, uploads>>
       \/ \A req \in Requests :
             (req.method = "POST" /\ FailsValidation(req)) => ~upload_file(req)]_vars

C5_Witness ==
    /\ last.op = "upload_file"
    /\ last.method = "POST"
    /\ last.outcome = "redirect"
    /\ ~last.stored
    /\ files # <<>>
    /\ uploads # {}

RowsNamed(f) == {i \in 1..Len(files) : files[i].file_name = f}

\* C7 as claimed: right after add_file(f, r), whatever the table held,
\* get_file_info(f) has readme_name r and has_readme true (false when r is
\* None).
C7_AddThenGet_AsClaimed ==
    (last.op = "add_file" /\ (Bool(last.readme_name) \/ last.readme_name = None)) =>
        LET row == get_file_info(files, last.file_name)
        IN  /\ row # NoRow
            /\ row.readme_name = last.readme_name
            /\ row.has_readme = (last.readme_name # None)

\* C7, amended: the same, when the table held no row with file_name f
\* before the call; if it did, get_file_info(f) is the row with the least id
\* among those named f, which is not the new one.
C7_AddThenGet ==
    (last.op = "add_file" /\ (Bool(last.readme_name) \/ last.readme_name = None)) =>
        LET row == get_file_info(files, last.file_name)
            new == files[Len(files)]
        IN  /\ row # NoRow
            /\ \A i \in RowsNamed(last.file_name) : row.id <= files[i].id
            /\ IF Cardinality(RowsNamed(last.file_name)) = 1
               THEN /\ row.readme_name = last.readme_name
                    /\ row.has_readme = (last.readme_name # None)
               ELSE row.id < new.id

C7_Witness ==
    /\ last.op = "add_file"
    /\ Bool(last.readme_name)
    /\ Len(files) = 2
    /\ Cardinality(RowsNamed(last.file_name)) = 1

\* A row is in sync with listing L: its file is listed and its readme is
\* absent or listed.
InSync(row, L) ==
    row.file_name \in L /\ (row.readme_name = None \/ row.readme_name \in L)

\* A row named f has a readme that listing L lacks.
DanglingUnder(db, f, L) ==
    \E k \in 1..Len(db) :
        /\ db[k].file_name = f
        /\ Bool(db[k].readme_name)
        /\ db[k].readme_name \notin L

\* C9 as claimed: a pass leaves every row that is in sync as it was, even
\* when another row with its file_name has a dangling readme_name.
C9_InSyncRowKept_AsClaimed ==
    [][PassDone' =>
          \A i \in 1..Len(files) :
              InSync(files[i], last'.actual_files) =>
                  \E j \in 1..Len(files') : files'[j] = files[i]]_vars

\* C9, amended: a pass leaves a row that is in sync as it was unless some
\* row with its file_name has a dangling readme_name; then the row keeps its
\* id, file_name and upload_date and loses readme_name and has_readme.
C9_InSyncRowKept ==
    [][PassDone' =>
          \A i \in 1..Len(files) :
              InSync(files[i], last'.actual_files) =>
                  \E j \in 1..Len(files') :
                      files'[j] =
                          IF DanglingUnder(files, files[i].file_name,
                                           last'.actual_files)
                          THEN [files[i] EXCEPT !.readme_name = None,
                                                !.has_readme = FALSE]
                          ELSE files[i]]_vars

C9_Witness ==
    /\ PassDone
    /\ Len(files) = 2
    /\ files[1].file_name = files[2].file_name
    /\ files[1].has_readme
    /\ files[2].has_readme
    /\ files[1].readme_name # files[2].readme_name

\* C10: in every state add_file and sync_files reach, a row has has_readme
\* true exactly when its readme_name is present and not empty.
C10_FlagMatchesName ==
    \A i \in 1..Len(files) :
        files[i].has_readme <=>
            (files[i].readme_name # None /\ files[i].readme_name # EmptyName)

C10_Witness ==
    /\ PassDone
    /\ \E i, j \in 1..Len(files) :
          /\ files[i].has_readme
          /\ files[j].readme_name = EmptyName

\* SpecRace: the last upload has finished, its primary file is in the upload
\* directory, and the table has no row for its file name.
UploadLost ==
    /\ upc = "done"
    /\ ufile \in uploads
    /\ get_file_info(files, ufile) = NoRow

\* C8: the race is real (C8_Witness is reached), and it is the only way to
\* that state: whenever the finished upload's file is on disk and the table
\* has no row for it, the row the upload inserted was deleted by a pass that
\* had read the table before the insert.
C8_LostOnlyByRace == UploadLost => uid \in raced

C8_Witness == UploadLost /\ spc = "idle"

====
